---- MODULE Spec2Model ----
(***************************************************************************)
(* A model of package fov (src/fov/fov.go): recursive shadowcasting on a   *)
(* 2D grid.  View.Compute / View.IsVisible and the MapFOV variant are      *)
(* modelled as whole operations (Spec, SpecMapFOV); the recursion of       *)
(* View.fov is also modelled step by step with an explicit call stack      *)
(* (SpecScan), to speak about the order of the grid queries, the           *)
(* recursion depth and termination.                                        *)
(*                                                                         *)
(* Slopes are float64 in the source.  Every slope the code produces is 0,  *)
(* 1 or (height +- 0.5)/dist, i.e. a rational k/(2*dist); the model keeps  *)
(* them as exact fractions <<num, den>>.  math.Floor(slope*d + 0.5) in     *)
(* float64 and the exact floor agree for every such slope and every        *)
(* distance d below 39, which covers the radii modelled here.              *)
(***************************************************************************)
EXTENDS Integers, Sequences, FiniteSets, TLC

VARIABLES
    grid,       \* the GridMap passed to the most recent call
    px, py,     \* the observer position passed to the most recent call
    rad,        \* the radius passed to the most recent call
    Visible,    \* View.Visible / MapFOV.Visible: the set of keys of the map
    marked,     \* ghost: the coordinates whose key the most recent call stored
    computed,   \* ghost: has Compute been called on this View yet
    dropped,    \* ghost: did the most recent call drop a key of the call before
    pc,         \* SpecScan: "idle", or "scan" while a Compute call is running
    oct,        \* SpecScan: the loop variable i of Compute
    stack,      \* SpecScan: the activation records of View.fov, innermost last
    visited,    \* SpecScan ghost: coordinates the loop of fov has examined
    asked       \* SpecScan ghost: coordinates IsOpaque was called with

vars == <<grid, px, py, rad, Visible, marked, computed, dropped,
          pc, oct, stack, visited, asked>>

-----------------------------------------------------------------------------
(* Bounds of the model.                                                    *)

GridN == 7          \* grids are GridN x GridN, origin (0,0)
MaxR  == 3          \* radii range over -1..MaxR
FarCoord == 12      \* a two-digit coordinate, for observers and queries

-----------------------------------------------------------------------------
(* The GridMap capability: a rectangle of cells, some of them opaque.      *)

InBounds(g, x, y) == x >= 0 /\ x < g.w /\ y >= 0 /\ y < g.h

IsOpaque(g, x, y) == <<x, y>> \in g.walls

AllCells == (0..(GridN - 1)) \X (0..(GridN - 1))

WallCells == {<<4, 3>>, <<3, 3>>, <<4, 4>>, <<2, 1>>}

WallSets == {{}} \cup {{c} : c \in WallCells} \cup {AllCells}

Grids == {[w |-> GridN, h |-> GridN, walls |-> ws] : ws \in WallSets}

ObsCoords == {-1, 1, 3, GridN - 1, FarCoord}

Radii == -1..MaxR

\* the coordinates IsVisible is asked about: every cell a call can store
QueryCoords == (-2 - MaxR)..(FarCoord + MaxR + 1)

\* before the first call no grid has been passed
NoGrid == [w |-> 0, h |-> 0, walls |-> {}]

-----------------------------------------------------------------------------
(* fmt.Sprintf with %d: the decimal digits, with a leading minus sign.     *)

Digit == <<"0", "1", "2", "3", "4", "5", "6", "7", "8", "9">>

RECURSIVE Utoa(_)
Utoa(n) == IF n < 10 THEN Digit[n + 1]
           ELSE Utoa(n \div 10) \o Digit[(n % 10) + 1]

Itoa(n) == IF n < 0 THEN "-" \o Utoa(-n) ELSE Utoa(n)

\* a key without the separator
KeyNoSeparator(x, y) == Itoa(x) \o Itoa(y)

\* fmt.Sprintf("%d,%d", x, y), the key of View.Visible
Key(x, y) == Itoa(x) \o "," \o Itoa(y)

\* fmt.Sprintf("%d%d", x, y), the key of MapFOV.Visible
MapKey(x, y) == Itoa(x) \o Itoa(y)

-----------------------------------------------------------------------------
(* The octant transform and the distance metric.                           *)

\* oct & mask > 0 for a one-bit mask
BitSet(n, mask) == (n \div mask) % 2 = 1

distHeightXY(x, y, d, h, o) ==
    LET dd == IF BitSet(o, 1) THEN -d ELSE d
        hh == IF BitSet(o, 2) THEN -h ELSE h
    IN  IF BitSet(o, 4) THEN <<x + hh, y + dd>> ELSE <<x + dd, y + hh>>

\* int(math.Sqrt(n)) for n >= 0: the largest s with s*s <= n
RECURSIVE SqrtFrom(_, _)
SqrtFrom(n, s) == IF (s + 1) * (s + 1) > n THEN s ELSE SqrtFrom(n, s + 1)

distTo(x1, y1, x2, y2) ==
    SqrtFrom((x1 - x2) * (x1 - x2) + (y1 - y2) * (y1 - y2), 0)

\* math.Floor(slope*float64(dist) + 0.5) for the fraction slope = <<num, den>>
RoundSlope(slope, dist) ==
    (2 * slope[1] * dist + slope[2]) \div (2 * slope[2])

\* (height - 0.5)/float64(dist) and (height + 0.5)/float64(dist)
SlopeBelow(height, dist) == <<2 * height - 1, 2 * dist>>
SlopeAbove(height, dist) == <<2 * height + 1, 2 * dist>>

-----------------------------------------------------------------------------
(* View.fov as a function of its arguments: the set of coordinates it      *)
(* stores in the Visible map.  scan is the for loop from `height` on.      *)
(* MapFOV.fov is the same code with another key format.                    *)

\* a base case that lets one more distance through
BaseCaseLate(dist, r) == dist > r + 1

\* line 50: the end of the iteration
BaseCase(dist, r) == dist > r

\* a recursive call at the caller's own distance
NextDistSame(dist) == dist

\* lines 75 and 85: the distance of the recursive call
NextDist(dist) == dist + 1

\* a store that forgets the bounds check
MarksUnbounded(g, x, y, c, r) ==
    IF distTo(x, y, c[1], c[2]) < r THEN {c} ELSE {}

\* line 66: the cell is stored when in bounds and nearer than the radius
Marks(g, x, y, c, r) ==
    IF InBounds(g, c[1], c[2]) /\ distTo(x, y, c[1], c[2]) < r THEN {c} ELSE {}

\* line 72: the branch that narrows the wedge
Narrows(g, c) == InBounds(g, c[1], c[2]) /\ ~IsOpaque(g, c[1], c[2])

\* both operands of && evaluated
OpaqueAskedAlways(g, c) == {c}

\* line 72: && evaluates IsOpaque only when InBounds returned true
OpaqueAsked(g, c) == IF InBounds(g, c[1], c[2]) THEN {c} ELSE {}

RECURSIVE fov(_, _, _, _, _, _, _, _)
RECURSIVE scan(_, _, _, _, _, _, _, _, _, _, _)

fov(g, x, y, dist, lowSlope, highSlope, o, r) ==
    IF BaseCase(dist, r) THEN {}
    ELSE scan(g, x, y, dist, RoundSlope(lowSlope, dist),
              RoundSlope(highSlope, dist), lowSlope, highSlope, FALSE, o, r)

scan(g, x, y, dist, height, high, lowSlope, highSlope, inGap, o, r) ==
    IF height > high THEN {}
    ELSE LET c == distHeightXY(x, y, dist, height, o)
         IN  IF Narrows(g, c)
             THEN Marks(g, x, y, c, r)
                  \cup (IF inGap
                        THEN fov(g, x, y, NextDist(dist), lowSlope,
                                 SlopeBelow(height, dist), o, r)
                        ELSE {})
                  \cup scan(g, x, y, dist, height + 1, high,
                            SlopeAbove(height, dist), highSlope, FALSE, o, r)
             ELSE Marks(g, x, y, c, r)
                  \cup (IF height = high
                        THEN fov(g, x, y, NextDist(dist), lowSlope,
                                 highSlope, o, r)
                        ELSE {})
                  \cup scan(g, x, y, dist, height + 1, high,
                            lowSlope, highSlope, TRUE, o, r)

\* a map that is not replaced
MakeMapKeep(old) == old

\* v.Visible = make(map[string]struct{}): whatever was there is dropped
MakeMap(old) == {}

\* the eight octants without the observer's own cell
ComputeMarksNoSelf(g, x, y, r) ==
    UNION {fov(g, x, y, 1, <<0, 1>>, <<1, 1>>, i, r) : i \in 1..8}

\* the coordinates one call stores: the observer, then the eight octants
ComputeMarks(g, x, y, r) ==
    {<<x, y>>}
    \cup UNION {fov(g, x, y, 1, <<0, 1>>, <<1, 1>>, i, r) : i \in 1..8}

\* ComputeMarks over the modelled inputs, evaluated once
MarksTable ==
    [g \in Grids, x \in ObsCoords, y \in ObsCoords, r \in Radii |->
        ComputeMarks(g, x, y, r)]

-----------------------------------------------------------------------------
(* View: New, Compute, IsVisible.                                          *)

\* View.IsVisible
IsVisible(x, y) == Key(x, y) \in Visible

\* New() returns &View{}: the map is nil, which holds no key
New ==
    /\ Visible = {}
    /\ marked = {}
    /\ computed = FALSE
    /\ dropped = FALSE

NoCall ==
    /\ grid = NoGrid
    /\ px = 0
    /\ py = 0
    /\ rad = 0

ScanIdle ==
    /\ pc = "idle"
    /\ oct = 0
    /\ stack = <<>>
    /\ visited = {}
    /\ asked = {}

Init == New /\ NoCall /\ ScanIdle

\* the map after Compute on a View whose map held `old`
AfterCompute(old, g, x, y, r) ==
    MakeMap(old) \cup {Key(c[1], c[2]) : c \in MarksTable[g, x, y, r]}

Compute(g, x, y, r) ==
    /\ grid' = g
    /\ px' = x
    /\ py' = y
    /\ rad' = r
    /\ marked' = MarksTable[g, x, y, r]
    /\ Visible' = AfterCompute(Visible, g, x, y, r)
    /\ computed' = TRUE
    /\ dropped' = (Visible \ Visible' # {})
    /\ UNCHANGED <<pc, oct, stack, visited, asked>>

Next ==
    \E g \in Grids, x \in ObsCoords, y \in ObsCoords, r \in Radii :
        Compute(g, x, y, r)

Spec == Init /\ [][Next]_vars

-----------------------------------------------------------------------------
(* MapFOV: ComputeFOV, IsVisible.                                          *)

\* MapFOV.IsVisible
MapIsVisible(x, y) == MapKey(x, y) \in Visible

ComputeFOV(g, x, y, r) ==
    /\ grid' = g
    /\ px' = x
    /\ py' = y
    /\ rad' = r
    /\ marked' = MarksTable[g, x, y, r]
    /\ Visible' = MakeMap(Visible) \cup {MapKey(c[1], c[2]) : c \in marked'}
    /\ computed' = TRUE
    /\ dropped' = (Visible \ Visible' # {})
    /\ UNCHANGED <<pc, oct, stack, visited, asked>>

NextMapFOV ==
    \E g \in Grids, x \in ObsCoords, y \in ObsCoords, r \in Radii :
        ComputeFOV(g, x, y, r)

SpecMapFOV == Init /\ [][NextMapFOV]_vars

-----------------------------------------------------------------------------
(* View.Compute step by step.  A frame is one activation of View.fov:      *)
(* at "entry" it has not yet tested the base case, at "loop" it is about   *)
(* to test height <= high.  The frame of a caller already holds the        *)
(* values its loop continues with after the recursive call returns.        *)

EntryFrame(dist, lowSlope, highSlope) ==
    [dist |-> dist, lowSlope |-> lowSlope, highSlope |-> highSlope,
     at |-> "entry", height |-> 0, high |-> 0, inGap |-> FALSE]

FirstFrame == EntryFrame(1, <<0, 1>>, <<1, 1>>)

Top == stack[Len(stack)]

Pop == SubSeq(stack, 1, Len(stack) - 1)

\* lines 39-42: reset the map, store the observer, start octant 1
Call(g, x, y, r) ==
    /\ pc = "idle"
    /\ grid' = g
    /\ px' = x
    /\ py' = y
    /\ rad' = r
    /\ marked' = {<<x, y>>}
    /\ Visible' = MakeMap(Visible) \cup {Key(x, y)}
    /\ computed' = TRUE
    /\ dropped' = FALSE
    /\ pc' = "scan"
    /\ oct' = 1
    /\ stack' = <<FirstFrame>>
    /\ visited' = {}
    /\ asked' = {}

\* lines 50-52: the base case returns at once
Return ==
    /\ pc = "scan"
    /\ stack # <<>>
    /\ Top.at = "entry"
    /\ BaseCase(Top.dist, rad)
    /\ stack' = Pop
    /\ UNCHANGED <<grid, px, py, rad, Visible, marked, computed, dropped,
                   pc, oct, visited, asked>>

\* lines 56-63: low, high, inGap and the loop variable
Enter ==
    /\ pc = "scan"
    /\ stack # <<>>
    /\ Top.at = "entry"
    /\ ~BaseCase(Top.dist, rad)
    /\ stack' = [stack EXCEPT ![Len(stack)] =
                    [Top EXCEPT !.at = "loop",
                                !.height = RoundSlope(Top.lowSlope, Top.dist),
                                !.high = RoundSlope(Top.highSlope, Top.dist),
                                !.inGap = FALSE]]
    /\ UNCHANGED <<grid, px, py, rad, Visible, marked, computed, dropped,
                   pc, oct, visited, asked>>

\* lines 63-87: one iteration of the loop, up to the recursive call it makes
Iterate ==
    /\ pc = "scan"
    /\ stack # <<>>
    /\ Top.at = "loop"
    /\ Top.height <= Top.high
    /\ LET f == Top
           c == distHeightXY(px, py, f.dist, f.height, oct)
           narrows == Narrows(grid, c)
           recurses == IF narrows THEN f.inGap ELSE f.height = f.high
           callee ==
               IF narrows
               THEN EntryFrame(NextDist(f.dist), f.lowSlope,
                               SlopeBelow(f.height, f.dist))
               ELSE EntryFrame(NextDist(f.dist), f.lowSlope, f.highSlope)
           caller ==
               IF narrows
               THEN [f EXCEPT !.lowSlope = SlopeAbove(f.height, f.dist),
                              !.inGap = FALSE,
                              !.height = f.height + 1]
               ELSE [f EXCEPT !.inGap = TRUE,
                              !.height = f.height + 1]
       IN  /\ marked' = marked \cup Marks(grid, px, py, c, rad)
           /\ Visible' = Visible \cup
                  {Key(m[1], m[2]) : m \in Marks(grid, px, py, c, rad)}
           /\ visited' = visited \cup {c}
           /\ asked' = asked \cup OpaqueAsked(grid, c)
           /\ stack' = IF recurses
                       THEN Append(Pop, caller) \o <<callee>>
                       ELSE Append(Pop, caller)
    /\ UNCHANGED <<grid, px, py, rad, computed, dropped, pc, oct>>

\* line 63: height > high ends the loop and the call
LoopEnd ==
    /\ pc = "scan"
    /\ stack # <<>>
    /\ Top.at = "loop"
    /\ Top.height > Top.high
    /\ stack' = Pop
    /\ UNCHANGED <<grid, px, py, rad, Visible, marked, computed, dropped,
                   pc, oct, visited, asked>>

\* lines 41-43: the next octant, or the end of Compute after the eighth
NextOctant ==
    /\ pc = "scan"
    /\ stack = <<>>
    /\ oct < 8
    /\ oct' = oct + 1
    /\ stack' = <<FirstFrame>>
    /\ UNCHANGED <<grid, px, py, rad, Visible, marked, computed, dropped,
                   pc, visited, asked>>

Finish ==
    /\ pc = "scan"
    /\ stack = <<>>
    /\ oct = 8
    /\ pc' = "idle"
    /\ oct' = 0
    /\ UNCHANGED <<grid, px, py, rad, Visible, marked, computed, dropped,
                   stack, visited, asked>>

ScanStep == Return \/ Enter \/ Iterate \/ LoopEnd \/ NextOctant \/ Finish

NextScan ==
    \/ \E g \in Grids, x \in ObsCoords, y \in ObsCoords, r \in Radii :
           Call(g, x, y, r)
    \/ ScanStep

\* a running call is sequential code: it always takes its next step
SpecScan == Init /\ [][NextScan]_vars /\ WF_vars(ScanStep)

\* the step-by-step run stores what the function fov computes
ScanAgrees ==
    (pc = "idle" /\ computed) =>
        marked = ComputeMarks(grid, px, py, rad)

-----------------------------------------------------------------------------
(* Properties of View (checked under Spec).                                *)

CellsOf(g) == (0..(g.w - 1)) \X (0..(g.h - 1))

\* the eight directions of a straight ray through cell centres
Dirs == ({-1, 0, 1} \X {-1, 0, 1}) \ {<<0, 0>>}

\* C1: on a fully transparent grid, after Compute an in-bounds cell is
\* visible if and only if its truncated Euclidean distance from the
\* observer is strictly less than the radius.  (Stated for radii >= 1:
\* with a radius <= 0 the observer's own cell, at distance 0, is visible.)
C1_OpenField ==
    (computed /\ grid.walls = {} /\ rad >= 1) =>
        \A c \in CellsOf(grid) :
            IsVisible(c[1], c[2]) <=> (distTo(px, py, c[1], c[2]) < rad)

\* C2: when the only opaque cell of the grid lies on a straight ray between
\* the observer and a farther in-bounds cell, after Compute the opaque cell
\* is visible if it is nearer than the radius, and the farther cell is not
\* visible.
C2_Occlusion ==
    computed =>
        \A d \in Dirs, k \in 1..MaxR, m \in 2..(MaxR + 1) :
            LET wall == <<px + k * d[1], py + k * d[2]>>
                far  == <<px + m * d[1], py + m * d[2]>>
            IN  (grid.walls = {wall} /\ k < m /\ InBounds(grid, far[1], far[2]))
                => /\ (distTo(px, py, wall[1], wall[2]) < rad
                          => IsVisible(wall[1], wall[2]))
                   /\ ~IsVisible(far[1], far[2])

\* C3 as stated: after Compute every coordinate of the result set is within
\* the bounds of the grid, wherever the observer stands.
C3_AllInBounds ==
    computed =>
        \A x \in QueryCoords, y \in QueryCoords :
            IsVisible(x, y) => InBounds(grid, x, y)

\* C3 amended: after Compute every coordinate of the result set other than
\* the observer's own cell is within the bounds of the grid.
C3_OthersInBounds ==
    computed =>
        \A x \in QueryCoords, y \in QueryCoords :
            (IsVisible(x, y) /\ <<x, y>> # <<px, py>>) => InBounds(grid, x, y)

\* an observer outside the grid that sees cells of the grid
C3_Witness ==
    /\ computed
    /\ ~InBounds(grid, px, py)
    /\ IsVisible(px, py)
    /\ \E c \in CellsOf(grid) : IsVisible(c[1], c[2])

\* C4: immediately after Compute with a radius >= 0 the observer's own cell
\* is visible, whether or not it is opaque.
C4_SelfVisible ==
    (computed /\ rad >= 0) => IsVisible(px, py)

\* an observer standing on an opaque cell, with radius 0
C4_Witness ==
    /\ computed
    /\ rad = 0
    /\ InBounds(grid, px, py)
    /\ IsOpaque(grid, px, py)
    /\ IsVisible(px, py)

\* C5: after any sequence of Compute calls the result set is the one a
\* freshly created View holds after the last call alone.
C5_FullReplacement ==
    computed => Visible = AfterCompute({}, grid, px, py, rad)

\* a call that dropped a key the call before it had stored
C5_Witness ==
    /\ computed
    /\ dropped
    /\ Cardinality(Visible) > 1

\* C7: IsVisible is true exactly for the coordinates stored by the most
\* recent Compute, and false for every coordinate before the first call.
C7_IsVisibleExact ==
    /\ \A x \in QueryCoords, y \in QueryCoords :
           IsVisible(x, y) <=> (<<x, y>> \in marked)
    /\ ~computed => \A x \in QueryCoords, y \in QueryCoords : ~IsVisible(x, y)

\* a stored coordinate whose digits, run together, read as another one
C7_Witness ==
    /\ computed
    /\ px = 1
    /\ py = FarCoord
    /\ IsVisible(1, FarCoord)
    /\ ~IsVisible(11, FarCoord - 10)

-----------------------------------------------------------------------------
(* Properties of MapFOV (checked under SpecMapFOV).                        *)

\* C10: after ComputeFOV, MapFOV.IsVisible(x, y) is true only if the cell
\* (x, y) itself was stored by that computation.
C10_MapKeyDistinct ==
    \A x \in QueryCoords, y \in QueryCoords :
        MapIsVisible(x, y) => (<<x, y>> \in marked)

-----------------------------------------------------------------------------
(* Properties of the run of Compute (checked under SpecScan).              *)

Working == {i \in 1..Len(stack) : stack[i].at = "loop"}

\* C6: with a radius <= 0 every octant scan returns from its base case at
\* distance 1: no cell is examined, and the result set holds the observer's
\* own cell only.
C6_NonPositiveRadius ==
    (computed /\ rad <= 0) =>
        /\ Visible = {Key(px, py)}
        /\ visited = {}
        /\ Working = {}
        /\ Len(stack) <= 1

\* a finished call with radius 0 on a grid that has an opaque cell
C6_Witness ==
    /\ computed
    /\ pc = "idle"
    /\ rad = 0
    /\ grid.walls # {}
    /\ InBounds(grid, px, py)

\* C8: during a Compute, IsOpaque is never asked about a coordinate for
\* which InBounds is false.
C8_OpaqueOnlyInBounds ==
    \A c \in asked : InBounds(grid, c[1], c[2])

\* a finished call that examined cells outside the grid and asked IsOpaque
C8_Witness ==
    /\ computed
    /\ pc = "idle"
    /\ asked # {}
    /\ \E c \in visited : ~InBounds(grid, c[1], c[2])

\* the n-th activation on the stack runs at distance n; an activation that
\* has passed the base case runs at a distance within the radius; so at
\* most `rad` activations (none for a negative radius) are past it
DepthInv ==
    /\ \A i \in 1..Len(stack) : stack[i].dist = i
    /\ \A i \in Working : stack[i].dist <= rad
    /\ Cardinality(Working) <= (IF rad > 0 THEN rad ELSE 0)

\* C9: every Compute call terminates; each recursive scan runs at a
\* distance one greater than its caller's, no scan works at a distance
\* greater than the radius, and the recursion depth never exceeds the radius.
C9_Termination ==
    /\ []DepthInv
    /\ (pc = "scan") ~> (pc = "idle")

\* the recursion at its deepest: `rad` scans at work, the innermost call at
\* its base case
C9_Witness ==
    /\ pc = "scan"
    /\ rad >= 2
    /\ Cardinality(Working) = rad
    /\ Len(stack) = rad + 1
    /\ BaseCase(Top.dist, rad)

====
